---- MODULE Spec2Model ----
(***************************************************************************)
(* net_data_map: the pinned BPF hash map of internal/datapath/bpf/lib/     *)
(* net_data.h, keyed by a __u32 (host port or pod peer address) and        *)
(* holding one struct net_data per key.                                    *)
(*                                                                         *)
(* The map is declared BPF_MAP_TYPE_HASH with max_entries 256, without     *)
(* map_flags (so it is preallocated) and pinned by name.  The model keeps  *)
(* the element memory of the map explicit: a control-plane writer runs     *)
(* update/delete, a data-path reader runs lookup and then reads the value  *)
(* through the pointer it was handed, one member of struct net_data at a   *)
(* time.                                                                   *)
(***************************************************************************)
EXTENDS Integers, Sequences, FiniteSets, TLC

\* ------------------------------------------------------------------ bounds
MaxOps == 3
MaxTableOps == 5
MaxReloads == 1

\* ------------------------------------------------------- the declarations
max_entries == 256

LIBBPF_PIN_NONE == "LIBBPF_PIN_NONE"
LIBBPF_PIN_BY_NAME == "LIBBPF_PIN_BY_NAME"

\* the map left unpinned: each load of the program creates its own map
MutPinNone == LIBBPF_PIN_NONE

pinning == LIBBPF_PIN_BY_NAME

BPF_MAP_TYPE_HASH == "BPF_MAP_TYPE_HASH"
BPF_MAP_TYPE_LRU_HASH == "BPF_MAP_TYPE_LRU_HASH"

\* the map declared least-recently-used: a full map evicts to make room
MutMapTypeLRU == BPF_MAP_TYPE_LRU_HASH

map_type == BPF_MAP_TYPE_HASH

\* struct veth_peer
veth_peer(idx, addr, mac) == [if_index |-> idx, if_addr |-> addr, mac_addr |-> mac]

\* struct net_data
net_data(pod, host, port) == [pod_peer |-> pod, host_peer |-> host, host_port |-> port]

\* the members of struct net_data, in declaration order
Members == <<"pod_peer", "host_peer", "host_port">>

\* zeroed value memory of an element that was never written
ZeroData == net_data(veth_peer(0, 0, 0), veth_peer(0, 0, 0), 0)

\* the two values a caller uses as key: the host port (a __u16 widened to the
\* __u32 key, which keeps its value) and the pod peer address
PortKey(r) == r.host_port
AddrKey(r) == r.pod_peer.if_addr

\* ------------------------------------------------------------ the inputs
\* workload i publishes host port i and has pod address i + 1, so the pod
\* address of the first workload is numerically the host port of the second
Workload(i) == net_data(veth_peer(2 * i, i + 1, i), veth_peer(2 * i + 1, i, i), i)
Workloads == {Workload(1), Workload(2)}

\* an entry that may be in the map from the start: an address-keyed workload
\* without a published port
FillKey == Cardinality(Workloads) + 2
FillData == net_data(veth_peer(FillKey, FillKey, FillKey), veth_peer(FillKey, 0, 0), 0)

\* the keys the operations of the model name
KeySet ==
    {PortKey(r) : r \in Workloads} \cup {AddrKey(r) : r \in Workloads} \cup {FillKey}

\* the number of entries a run starts with: none, one short of full, or full; all
\* but the entry of FillKey lie under keys outside KeySet
Prefills == {0, max_entries - 1, max_entries}

NULL == 0
NoRecord == [absent |-> TRUE]

VARIABLES
    htab,        \* the hash table over KeySet: key -> the element linked under it
    others,      \* the number of entries under keys outside KeySet
    elem,        \* memory of the elements used so far: id -> [key, value]
    freelist,    \* freed elements, most recently freed first
    nfresh,      \* preallocated elements never used yet, behind the freed ones
    extra_elems, \* the spare element an update of a present key is built in
    w,           \* the control-plane writer's position in update/delete
    nops,        \* map operations the writer has started
    rd,          \* one data-path invocation's position in lookup + read
    prog,        \* whether the data-path program is loaded
    nreloads,    \* program loads after the first
    written,     \* history: key -> the records update has linked under it
    rdh,         \* history: the reader's view of the writer when it looked up
    obs          \* history: progress of one workload's install/remove

vars == <<htab, others, elem, freelist, nfresh, extra_elems, w, nops, rd, prog,
          nreloads, written, rdh, obs>>

\* ------------------------------------------------------------- helpers
\* the number of entries in the map
Count == Cardinality(DOMAIN htab) + others

\* the element linked under key k, or NULL
lookup_elem_raw(k) == IF k \in DOMAIN htab THEN htab[k] ELSE NULL

\* the record the table holds under k
Get(k) == IF k \in DOMAIN htab THEN elem[htab[k]].value ELSE NoRecord

Idle == [pc |-> "idle", op |-> "none", key |-> 0, val |-> ZeroData,
         l_new |-> NULL, l_old |-> NULL, i |-> 0, ret |-> "OK"]

\* the writer back from an operation, holding what the call returned
Finished(op, k, ret) ==
    [pc |-> "idle", op |-> op, key |-> k, val |-> ZeroData,
     l_new |-> NULL, l_old |-> NULL, i |-> 0, ret |-> ret]

\* the first never-used element; the elements 1..max_entries are
\* preallocated and handed out in this order, max_entries + 1 is the spare
FirstFresh == max_entries - nfresh + 1

\* ------------------------------------------------- history bookkeeping
OtherKey(r, k) == IF k = PortKey(r) THEN AddrKey(r) ELSE PortKey(r)

ObsNone == [stage |-> "none", wl |-> ZeroData, count0 |-> 0, left |-> 0]

\* the observer of one workload's life: installed under one of its keys, then
\* under the other, then removed from one, then from the other, with no other
\* operation in between
ObsNext(op, k, r, ret) ==
    LET starts == /\ op = "update" /\ ret = "OK"
                  /\ k \in {PortKey(r), AddrKey(r)}
                  /\ PortKey(r) \notin DOMAIN htab
                  /\ AddrKey(r) \notin DOMAIN htab
        start == [stage |-> "one", wl |-> r, count0 |-> Count, left |-> OtherKey(r, k)]
    IN  CASE obs.stage = "one" /\ op = "update" /\ ret = "OK" /\ r = obs.wl /\ k = obs.left
               -> [obs EXCEPT !.stage = "both"]
          [] obs.stage = "both" /\ op = "delete" /\ ret = "OK"
                                /\ k \in {PortKey(obs.wl), AddrKey(obs.wl)}
               -> [obs EXCEPT !.stage = "half", !.left = OtherKey(obs.wl, k)]
          [] obs.stage = "half" /\ op = "delete" /\ ret = "OK" /\ k = obs.left
               -> [obs EXCEPT !.stage = "gone"]
          [] OTHER -> IF starts THEN start ELSE ObsNone

\* an operation on the reader's key completed while the reader was reading
Disturb(k) ==
    IF rd.pc = "read" /\ rd.key = k THEN [rdh EXCEPT !.dirty = TRUE] ELSE rdh

\* ------------------------------------------------------------------ Init
Init ==
    \E n \in Prefills :
        /\ htab = IF n = 0 THEN <<>> ELSE (FillKey :> 1)
        /\ others = IF n = 0 THEN 0 ELSE n - 1
        /\ elem = IF n = 0 THEN (max_entries + 1 :> [key |-> 0, value |-> ZeroData])
                          ELSE (1 :> [key |-> FillKey, value |-> FillData])
                               @@ (max_entries + 1 :> [key |-> 0, value |-> ZeroData])
        /\ freelist = <<>>
        /\ nfresh = max_entries - n
        /\ extra_elems = max_entries + 1
        /\ w = Idle
        /\ nops = 0
        /\ rd = [pc |-> "idle", key |-> 0, ptr |-> NULL, j |-> 0, val |-> NoRecord]
        /\ prog = "loaded"
        /\ nreloads = 0
        /\ written = [k \in KeySet |-> IF k = FillKey /\ n > 0 THEN {FillData} ELSE {}]
        /\ rdh = [nops_at |-> 0, inflight |-> FALSE, dirty |-> FALSE, at |-> NoRecord]
        /\ obs = ObsNone

\* ------------------------------------------- bpf_map_update_elem(BPF_ANY)
\* delete that also drops every other key holding the same workload's record
MutUnlinkWorkload(k) ==
    [x \in {y \in DOMAIN htab : elem[htab[y]].value # elem[htab[k]].value} |-> htab[x]]

\* delete that frees the element but leaves it linked in its bucket
MutUnlinkNothing(k) == htab

\* hlist_nulls_del_rcu: the element of key k leaves its bucket
unlink_elem(k) == [x \in DOMAIN htab \ {k} |-> htab[x]]

\* the key a least-recently-used map would evict to make room
lru_victim(k) == CHOOSE v \in DOMAIN htab : \A u \in DOMAIN htab : v <= u

\* the capacity check made before asking whether the key is present
MutAllocCapacityFirst(l_old) ==
    IF freelist = <<>> /\ nfresh = 0 THEN NULL
    ELSE IF l_old # NULL THEN extra_elems
    ELSE IF freelist # <<>> THEN Head(freelist)
    ELSE FirstFresh

\* alloc_htab_elem of a preallocated map: the spare element when the key is
\* present, else the head of the free list, else none
alloc_htab_elem(l_old) ==
    IF l_old # NULL THEN extra_elems
    ELSE IF freelist # <<>> THEN Head(freelist)
    ELSE IF nfresh > 0 THEN FirstFresh
    ELSE NULL

\* the first part of htab_map_update_elem: find the old element, get a new
\* one (no element means -E2BIG) and copy the key into it
UpdateBegin(k, r) ==
    /\ w.pc = "idle"
    /\ nops' = nops + 1
    /\ LET l_old == lookup_elem_raw(k)
           l_new == alloc_htab_elem(l_old)
           take(l) ==
               /\ elem' = [e \in DOMAIN elem \cup {l} |->
                              IF e # l THEN elem[e]
                              ELSE [key |-> k,
                                    value |-> IF l \in DOMAIN elem THEN elem[l].value
                                                                  ELSE ZeroData]]
               /\ w' = [pc |-> "copy", op |-> "update", key |-> k, val |-> r,
                        l_new |-> l, l_old |-> l_old, i |-> 1, ret |-> "OK"]
               /\ obs' = obs
       IN  IF l_new # NULL
           THEN /\ take(l_new)
                /\ freelist' = IF l_old = NULL /\ freelist # <<>>
                               THEN Tail(freelist) ELSE freelist
                /\ nfresh' = IF l_old = NULL /\ freelist = <<>>
                             THEN nfresh - 1 ELSE nfresh
                /\ htab' = htab
           ELSE IF map_type = BPF_MAP_TYPE_LRU_HASH
           THEN /\ take(htab[lru_victim(k)])
                /\ htab' = unlink_elem(lru_victim(k))
                /\ UNCHANGED <<freelist, nfresh>>
           ELSE /\ w' = Finished("update", k, "E2BIG")
                /\ obs' = ObsNext("update", k, r, "E2BIG")
                /\ UNCHANGED <<htab, elem, freelist, nfresh>>
    /\ UNCHANGED <<others, extra_elems, rd, prog, nreloads, written, rdh>>

\* a copy that stops short of the last member, host_port
MutCopyDropsPort(dst, src, i) ==
    IF i = Len(Members) THEN dst ELSE [dst EXCEPT ![Members[i]] = src[Members[i]]]

\* copy_map_value: member i of the caller's record goes into the new element
copy_member(dst, src, i) == [dst EXCEPT ![Members[i]] = src[Members[i]]]

UpdateCopy ==
    /\ w.pc = "copy"
    /\ elem' = [elem EXCEPT ![w.l_new].value = copy_member(@, w.val, w.i)]
    /\ w' = IF w.i = Len(Members) THEN [w EXCEPT !.pc = "link"]
                                  ELSE [w EXCEPT !.i = @ + 1]
    /\ UNCHANGED <<htab, others, freelist, nfresh, extra_elems, nops, rd, prog,
                   nreloads, written, rdh, obs>>

\* the new element linked under its record's host port, whatever key was given
MutLinkByPort(k, l_new) ==
    [x \in DOMAIN htab \cup {PortKey(elem[l_new].value)} |->
        IF x = PortKey(elem[l_new].value) THEN l_new ELSE htab[x]]

\* hlist_nulls_add_head_rcu(new) and hlist_nulls_del_rcu(old) under the bucket
\* lock: from here on the key leads to the new element
link_elem(k, l_new) == [x \in DOMAIN htab \cup {k} |-> IF x = k THEN l_new ELSE htab[x]]

\* the replaced element is kept as the spare one for the next update
next_extra(l_old) == IF l_old # NULL THEN l_old ELSE extra_elems

UpdateLink ==
    /\ w.pc = "link"
    /\ htab' = link_elem(w.key, w.l_new)
    /\ extra_elems' = next_extra(w.l_old)
    /\ w' = Finished("update", w.key, "OK")
    /\ rdh' = Disturb(w.key)
    /\ obs' = ObsNext("update", w.key, w.val, "OK")
    /\ written' = [written EXCEPT ![w.key] = @ \cup {w.val}]
    /\ UNCHANGED <<others, elem, freelist, nfresh, nops, rd, prog, nreloads>>

\* ------------------------------------------------- bpf_map_delete_elem
\* delete that reports success for a key that is not there
MutDeleteAbsentOK(k) ==
    /\ w.pc = "idle"
    /\ nops' = nops + 1
    /\ LET l == lookup_elem_raw(k)
       IN  /\ htab' = IF l # NULL THEN unlink_elem(k) ELSE htab
           /\ freelist' = IF l # NULL THEN <<l>> \o freelist ELSE freelist
           /\ w' = Finished("delete", k, "OK")
           /\ rdh' = IF l # NULL THEN Disturb(k) ELSE rdh
           /\ obs' = ObsNext("delete", k, ZeroData, "OK")
    /\ UNCHANGED <<others, elem, nfresh, extra_elems, rd, prog, nreloads, written>>

Delete(k) ==
    /\ w.pc = "idle"
    /\ nops' = nops + 1
    /\ LET l == lookup_elem_raw(k)
       IN  IF l # NULL
           THEN /\ htab' = unlink_elem(k)
                /\ freelist' = <<l>> \o freelist
                /\ w' = Finished("delete", k, "OK")
                /\ rdh' = Disturb(k)
                /\ obs' = ObsNext("delete", k, ZeroData, "OK")
           ELSE /\ w' = Finished("delete", k, "ENOENT")
                /\ obs' = ObsNext("delete", k, ZeroData, "ENOENT")
                /\ UNCHANGED <<htab, freelist, rdh>>
    /\ UNCHANGED <<others, elem, nfresh, extra_elems, rd, prog, nreloads, written>>

\* ------------------------------------------------- bpf_map_lookup_elem
\* the program is handed a pointer to the value inside the element
Lookup(k) ==
    /\ prog = "loaded"
    /\ rd.pc = "idle"
    /\ LET l == lookup_elem_raw(k)
       IN  rd' = IF l = NULL
                 THEN [pc |-> "done", key |-> k, ptr |-> NULL, j |-> 0, val |-> NoRecord]
                 ELSE [pc |-> "read", key |-> k, ptr |-> l, j |-> 1, val |-> ZeroData]
    /\ rdh' = [nops_at |-> nops, inflight |-> w.pc # "idle",
               dirty |-> FALSE, at |-> Get(k)]
    /\ UNCHANGED <<htab, others, elem, freelist, nfresh, extra_elems, w, nops, prog,
                   nreloads, written, obs>>

\* the program reads the members of the value through the pointer
ReadMember ==
    /\ rd.pc = "read"
    /\ rd' = [rd EXCEPT !.val = copy_member(@, elem[rd.ptr].value, rd.j),
                        !.j = @ + 1,
                        !.pc = IF rd.j = Len(Members) THEN "done" ELSE "read"]
    /\ UNCHANGED <<htab, others, elem, freelist, nfresh, extra_elems, w, nops, prog,
                   nreloads, written, rdh, obs>>

\* ------------------------------------ replacing the data-path program
ProgUnload ==
    /\ prog = "loaded"
    /\ prog' = "unloaded"
    /\ UNCHANGED <<htab, others, elem, freelist, nfresh, extra_elems, w, nops, rd,
                   nreloads, written, rdh, obs>>

\* libbpf opens the map of the new program: a map pinned by name is reused
\* from its pin path, any other map is created anew
ProgLoad ==
    /\ prog = "unloaded"
    /\ prog' = "loaded"
    /\ nreloads' = nreloads + 1
    /\ IF pinning = LIBBPF_PIN_BY_NAME
       THEN UNCHANGED <<htab, others, elem, freelist, nfresh, extra_elems>>
       ELSE /\ htab' = <<>>
            /\ others' = 0
            /\ elem' = (max_entries + 1 :> [key |-> 0, value |-> ZeroData])
            /\ freelist' = <<>>
            /\ nfresh' = max_entries
            /\ extra_elems' = max_entries + 1
    /\ UNCHANGED <<w, nops, rd, written, rdh, obs>>

\* --------------------------------------------------- specifications
\* the control plane writing while a data-path invocation looks up and reads
Next ==
    \/ \E k \in KeySet, r \in Workloads : nops < MaxOps /\ UpdateBegin(k, r)
    \/ UpdateCopy
    \/ UpdateLink
    \/ \E k \in KeySet : nops < MaxOps /\ Delete(k)
    \/ \E k \in KeySet : Lookup(k)
    \/ ReadMember

Spec == Init /\ [][Next]_vars

\* the control plane alone, over longer runs of operations
NextTable ==
    \/ \E k \in KeySet, r \in Workloads : nops < MaxTableOps /\ UpdateBegin(k, r)
    \/ UpdateCopy
    \/ UpdateLink
    \/ \E k \in KeySet : nops < MaxTableOps /\ Delete(k)

SpecTable == Init /\ [][NextTable]_vars

\* the control plane writing while the data-path program is replaced
NextReload ==
    \/ \E k \in KeySet, r \in Workloads : nops < MaxOps /\ UpdateBegin(k, r)
    \/ UpdateCopy
    \/ UpdateLink
    \/ \E k \in KeySet : nops < MaxOps /\ Delete(k)
    \/ nreloads < MaxReloads /\ ProgUnload
    \/ ProgLoad

SpecReload == Init /\ [][NextReload]_vars

\* ------------------------------------------------------------ the steps
\* the writer enters bpf_map_update_elem
UpdateStarts == w.pc = "idle" /\ nops' = nops + 1 /\ w'.op = "update"

\* bpf_map_update_elem returns from a completed update
UpdateReturns == w.pc = "link" /\ w'.pc = "idle"

\* the writer runs bpf_map_delete_elem
DeleteRuns == w.pc = "idle" /\ nops' = nops + 1 /\ w'.op = "delete"

WorkloadKeys(r) == {PortKey(r), AddrKey(r)}

\* ------------------------------------------------------------------ C1
\* C1: once workload A's record is stored under its host-port key k, no put
\* stores a different workload B's record under k taken as B's pod address;
\* such a put is to be rejected.
C1_CollidingPutRejected ==
    [][\A k \in KeySet :
         (/\ k \in DOMAIN htab /\ k \in DOMAIN htab'
          /\ PortKey(Get(k)) = k
          /\ Get(k)' # Get(k)) => AddrKey(Get(k)') # k]_vars

\* ------------------------------------------------------------------ C2
\* C2: a put(k, r) that succeeds leaves exactly r stored under k, all three
\* members included; what is stored under a key changes only when a put or
\* delete of that key completes; and a get during which no put or delete of
\* its key completes returns exactly what was stored when it looked up.
C2_PutThenGet ==
    /\ [][UpdateReturns => (w'.ret = "OK" /\ Get(w.key)' = w.val)]_vars
    /\ [][\A k \in KeySet :
            Get(k)' # Get(k) =>
                (UpdateReturns \/ DeleteRuns) /\ w'.key = k /\ w'.ret = "OK"]_vars
    /\ [](rd.pc = "done" /\ ~rdh.dirty => rd.val = rdh.at)

\* a get that began after put(FillKey, r) overwrote the entry, and
\* returned r
C2_Witness ==
    /\ nops = 1 /\ w.pc = "idle" /\ w.op = "update" /\ w.ret = "OK"
    /\ Count = max_entries - 1
    /\ w.key = FillKey /\ rd.key = FillKey
    /\ rd.pc = "done" /\ ~rdh.dirty /\ ~rdh.inflight /\ rdh.nops_at = nops
    /\ rd.val \in Workloads

\* ------------------------------------------------------------------ C3
\* C3: with max_entries entries in the table, a put of a key that is not
\* present returns E2BIG (Full) and changes nothing, and a put of a key that
\* is present goes ahead, returns OK and leaves the new record under the key.
C3_FullAtCapacity ==
    /\ [][(UpdateStarts /\ Count = max_entries) =>
            IF w'.key \in DOMAIN htab
            THEN w'.pc = "copy"
            ELSE /\ w'.pc = "idle" /\ w'.ret = "E2BIG"
                 /\ UNCHANGED <<htab, others, elem, freelist, nfresh, extra_elems>>]_vars
    /\ [][(UpdateReturns /\ Count = max_entries /\ w.key \in DOMAIN htab) =>
            /\ w'.ret = "OK"
            /\ Get(w.key)' = w.val
            /\ Count' = max_entries]_vars

\* the table is full, FillKey has been overwritten, and the last put, of
\* a new key, returned E2BIG
C3_Witness ==
    /\ Count = max_entries
    /\ w.pc = "idle" /\ w.op = "update" /\ w.ret = "E2BIG"
    /\ w.key \notin DOMAIN htab
    /\ Get(FillKey) \in Workloads

\* ------------------------------------------------------------------ C4
\* C4: every get(k) returns absent or one record that a single put(k, r)
\* wrote whole, never a mix of members of different records.
C4_NoTornRead ==
    rd.pc = "done" => rd.val = NoRecord \/ rd.val \in written[rd.key]

\* ------------------------------------------------------------------ C5
\* C5: delete of a present key returns OK, leaves the key absent and leaves
\* the record under every other key as it was.
C5_DeletePresent ==
    [][\A d \in DOMAIN htab :
         (DeleteRuns /\ w'.key = d) =>
             /\ w'.ret = "OK"
             /\ Get(d)' = NoRecord
             /\ \A k \in (DOMAIN htab \cup KeySet) \ {d} : Get(k)' = Get(k)]_vars

\* one key of an installed workload was deleted and its other key still
\* leads to the workload's record
C5_Witness ==
    /\ obs.stage = "half"
    /\ w.pc = "idle" /\ w.op = "delete" /\ w.ret = "OK"
    /\ Get(w.key) = NoRecord
    /\ Get(obs.left) = obs.wl

\* ------------------------------------------------------------------ C6
\* C6: delete of a key that is not present returns ENOENT (NotFound) and
\* leaves the keys, every record and the count as they were.
C6_DeleteAbsent ==
    [][(DeleteRuns /\ w'.key \notin DOMAIN htab) =>
         /\ w'.ret = "ENOENT"
         /\ UNCHANGED <<htab, others, elem, freelist, nfresh, extra_elems>>
         /\ Count' = Count]_vars

C6_Witness ==
    /\ w.pc = "idle" /\ w.op = "delete" /\ w.ret = "ENOENT"
    /\ w.key \notin DOMAIN htab
    /\ Count > 0

C8_NeverEvicts ==
    /\ [](Count <= max_entries)
    /\ [][\A k \in DOMAIN htab :
            k \notin DOMAIN htab' => DeleteRuns /\ w'.key = k /\ w'.ret = "OK"]_vars
    /\ [][others' # others => prog' # prog]_vars
    /\ [][(UpdateStarts /\ w'.ret = "E2BIG") => UNCHANGED <<htab, others, elem>>]_vars

\* a put was refused on the full table and every entry is still there
C8_Witness ==
    /\ w.pc = "idle" /\ w.op = "update" /\ w.ret = "E2BIG"
    /\ Count = max_entries /\ others = max_entries - 2
    /\ Get(FillKey) = FillData

\* ------------------------------------------------------------------ C9
\* C9: once a workload is installed under both its keys (both absent before),
\* each key leads to its record; once both keys are deleted again the count is
\* what it was before the workload was added and both keys are absent.
C9_InstallRemove ==
    /\ obs.stage = "both" =>
          \A k \in WorkloadKeys(obs.wl) : Get(k) = obs.wl
    /\ obs.stage = "gone" =>
          /\ Count = obs.count0
          /\ \A k \in WorkloadKeys(obs.wl) : Get(k) = NoRecord

\* a workload was installed into the last two free places of the table and
\* removed again
C9_Witness ==
    /\ obs.stage = "gone" /\ obs.wl \in Workloads
    /\ obs.count0 = max_entries - 2

\* ----------------------------------------------------------------- C10
\* C10: unloading and loading the data-path program leaves every key and
\* its record as they were.
C10_SurvivesReload ==
    [][prog' # prog =>
         /\ DOMAIN htab' = DOMAIN htab
         /\ others' = others
         /\ \A k \in DOMAIN htab \cup KeySet : Get(k)' = Get(k)]_vars

\* the program was loaded again over a table holding a workload's record
C10_Witness ==
    /\ prog = "loaded" /\ nreloads >= 1
    /\ \E k \in KeySet : Get(k) \in Workloads
====
